---- MODULE Spec2Model ----
(***************************************************************************)
(* count_to_10.py: a module that defines count_from_1_to_10 and calls it   *)
(* when it is run as the main program.  The model follows the interpreter  *)
(* statement by statement: the def statement, the __main__ guard, the      *)
(* call, the for loop over range(1, 11) and the print statement.           *)
(*                                                                         *)
(* Standard output is the sequence of characters written to it.  The       *)
(* stream is open throughout: a closed stream is outside the program's     *)
(* stated operating conditions.                                            *)
(***************************************************************************)
EXTENDS Integers, Sequences, FiniteSets, TLC

\* How many times a program that imported the module calls the function.
MaxCalls == 4

\* ------------------------------------------------------------------------
\* Names and literals of the source

MainName == "__main__"

ImportedName == "count_to_10"

\* The name the file can be loaded under: run as a script, or imported.
ModuleNames == {MainName, ImportedName}

\* def count_from_1_to_10():
FunctionName == "count_from_1_to_10"

NL == "\n"

DigitChars == <<"0", "1", "2", "3", "4", "5", "6", "7", "8", "9">>

VARIABLES
    name,       \* the module's __name__
    pc,         \* the statement about to execute
    globals,    \* names bound in the module's namespace
    caller,     \* who called the function: "none", "module" or "importer"
    it,         \* the for loop's range iterator: <<>> or <<iterator>>
    i,          \* the loop variable, local to the call: <<>> or <<value>>
    stdout,     \* the characters written to standard output
    exitcode,   \* the process's exit code: <<>> while running, then <<code>>
    calls       \* the calls of the function that have returned

vars == <<name, pc, globals, caller, it, i, stdout, exitcode, calls>>

\* Variant: the call misspells the function's name.
MisspelledName == "count_from_1_to_11"

\* count_from_1_to_10()
CalledName == "count_from_1_to_10"

\* Variant: the count starts from a module-level counter that outlives a call.
CarriedStart == calls + 1

RangeStart == 1

\* Variant: range(1, 10), the stop taken as inclusive.
StopAtTen == 11 - 1

RangeStop == 11

\* Variant: range(1, 11, 2).
StepOfTwo == 1 + 1

\* range(1, 11) has the default step.
RangeStep == 1

\* ------------------------------------------------------------------------
\* Built-ins, as the interpreter computes them

\* len(range(start, stop, step))
RangeLen(start, stop, step) ==
    IF step > 0 /\ start < stop THEN ((stop - start - 1) \div step) + 1
    ELSE IF step < 0 /\ start > stop THEN ((start - stop - 1) \div (0 - step)) + 1
    ELSE 0

\* iter(range(start, stop, step)): a fresh iterator at index 0
RangeIter(start, stop, step) ==
    [index |-> 0, start |-> start, step |-> step, len |-> RangeLen(start, stop, step)]

\* Variant: the bound test is off by one.
HasNextInclusive(r) == r.index <= r.len

\* next(iterator) has a value
HasNext(r) == r.index < r.len

\* Variant: the index counts from the start value's predecessor, as range(0, 10).
NextValueFromZero(r) == r.start - 1 + r.index * r.step

\* the value next(iterator) returns
NextValue(r) == r.start + r.index * r.step

\* str(n) for an integer: decimal digits, most significant first, "-" for a
\* negative number, no padding.
RECURSIVE Digits(_)
Digits(n) ==
    IF n < 10 THEN <<DigitChars[n + 1]>>
    ELSE Digits(n \div 10) \o <<DigitChars[(n % 10) + 1]>>

Str(n) == IF n < 0 THEN <<"-">> \o Digits(0 - n) ELSE Digits(n)

\* Variant: print(x, end=" ").
PrintedSpaceEnd(x) == Str(x) \o <<" ">>

\* What print(x) writes: str(x), then the default end, a newline.
Printed(x) == Str(x) \o <<NL>>

\* Variant: the guard is missing.
AlwaysMain == TRUE

\* if __name__ == "__main__":
IsMain == name = MainName

\* ------------------------------------------------------------------------
\* The initial state: the interpreter is about to execute the file.

Init ==
    /\ name \in ModuleNames
    /\ pc = "L6"
    /\ globals = {}
    /\ caller = "none"
    /\ it = <<>>
    /\ i = <<>>
    /\ stdout = <<>>
    /\ exitcode = <<>>
    /\ calls = 0

\* ------------------------------------------------------------------------
\* Statements

\* Line 6: def binds the function's name in the module's namespace.
DefStmt ==
    /\ pc = "L6"
    /\ globals' = globals \cup {FunctionName}
    /\ pc' = "L11"
    /\ UNCHANGED <<name, caller, it, i, stdout, exitcode, calls>>

\* Line 11: the guard; its body is line 12, and the file ends after it.
IfMain ==
    /\ pc = "L11"
    /\ pc' = IF IsMain THEN "L12" ELSE "end"
    /\ UNCHANGED <<name, globals, caller, it, i, stdout, exitcode, calls>>

\* Entering the function body from `who`: a new frame with no locals.
EnterFunction(who) ==
    /\ caller' = who
    /\ pc' = "L8"
    /\ it' = <<>>
    /\ i' = <<>>
    /\ UNCHANGED <<name, globals, stdout, exitcode, calls>>

\* An uncaught exception ends the interpreter with exit code 1.
Uncaught ==
    /\ pc' = "exit"
    /\ exitcode' = <<1>>
    /\ UNCHANGED <<name, globals, caller, it, i, stdout, calls>>

\* Line 12: looks the called name up in the module's namespace and calls it;
\* an unbound name raises NameError.
CallStmt ==
    /\ pc = "L12"
    /\ IF CalledName \in globals THEN EnterFunction("module") ELSE Uncaught

\* A program that imported the module calls the function.
ImporterCall ==
    /\ pc = "loaded"
    /\ calls < MaxCalls
    /\ FunctionName \in globals
    /\ EnterFunction("importer")

\* Line 8, on entry: range(1, 11) is evaluated and the loop takes its iterator.
ForSetup ==
    /\ pc = "L8"
    /\ it = <<>>
    /\ it' = <<RangeIter(RangeStart, RangeStop, RangeStep)>>
    /\ UNCHANGED <<name, pc, globals, caller, i, stdout, exitcode, calls>>

\* Variant: the loop variable is declared global.
BindGlobalVar(v) ==
    /\ i' = <<v>>
    /\ globals' = globals \cup {"i"}

\* The loop variable is a local of the call.
BindLoopVar(v) ==
    /\ i' = <<v>>
    /\ UNCHANGED globals

\* Line 8, each time round: the next value is bound to i and the body runs,
\* or the iterator is exhausted and the function falls off its end.
ForNext ==
    /\ pc = "L8"
    /\ it # <<>>
    /\ IF HasNext(it[1])
       THEN /\ BindLoopVar(NextValue(it[1]))
            /\ it' = <<[it[1] EXCEPT !.index = @ + 1]>>
            /\ pc' = "L9"
       ELSE /\ pc' = "ret"
            /\ UNCHANGED <<it, i, globals>>
    /\ UNCHANGED <<name, caller, stdout, exitcode, calls>>

\* Line 9: print(i); reading an unbound local raises UnboundLocalError.
PrintStmt ==
    /\ pc = "L9"
    /\ IF i # <<>>
       THEN /\ stdout' = stdout \o Printed(i[1])
            /\ pc' = "L8"
            /\ UNCHANGED <<name, globals, caller, it, i, exitcode, calls>>
       ELSE Uncaught

\* The function returns None: its frame and locals are gone, and control is
\* back in the caller.
Return ==
    /\ pc = "ret"
    /\ it' = <<>>
    /\ i' = <<>>
    /\ calls' = calls + 1
    /\ pc' = IF caller = "module" THEN "end" ELSE "loaded"
    /\ caller' = "none"
    /\ UNCHANGED <<name, globals, stdout, exitcode>>

\* The end of the file: a script exits with code 0, an imported module is
\* loaded and its importer goes on.
ModuleEnd ==
    /\ pc = "end"
    /\ IF name = MainName
       THEN pc' = "exit" /\ exitcode' = <<0>>
       ELSE pc' = "loaded" /\ UNCHANGED exitcode
    /\ UNCHANGED <<name, globals, caller, it, i, stdout, calls>>

\* The steps of the file's own code.
Run ==
    \/ DefStmt
    \/ IfMain
    \/ CallStmt
    \/ ForSetup
    \/ ForNext
    \/ PrintStmt
    \/ Return
    \/ ModuleEnd

Next ==
    \/ DefStmt
    \/ IfMain
    \/ CallStmt
    \/ ImporterCall
    \/ ForSetup
    \/ ForNext
    \/ PrintStmt
    \/ Return
    \/ ModuleEnd

Spec == Init /\ [][Next]_vars

\* Execution is sequential and nothing blocks: an enabled statement runs.
\* Whether an importer calls again is up to the importer.
LiveSpec == Init /\ [][Next]_vars /\ WF_vars(Run)

\* ------------------------------------------------------------------------
\* Reading standard output back

IsPrefix(s, t) == Len(s) <= Len(t) /\ SubSeq(t, 1, Len(s)) = s

\* s cut at its newlines: the complete lines, and what follows the last newline.
RECURSIVE Split(_, _, _)
Split(s, cur, acc) ==
    IF s = <<>> THEN [lines |-> acc, rest |-> cur]
    ELSE IF Head(s) = NL THEN Split(Tail(s), <<>>, Append(acc, cur))
    ELSE Split(Tail(s), Append(cur, Head(s)), acc)

Lines(s) == Split(s, <<>>, <<>>).lines

Unterminated(s) == Split(s, <<>>, <<>>).rest

IsDigit(c) == \E d \in 1..10 : DigitChars[d] = c

DigitValue(c) == (CHOOSE d \in 1..10 : DigitChars[d] = c) - 1

\* The integer a line of digits denotes; -1 for anything else.
RECURSIVE LineValue(_)
LineValue(l) ==
    IF l = <<>> \/ \E k \in 1..Len(l) : ~IsDigit(l[k]) THEN 0 - 1
    ELSE IF Len(l) = 1 THEN DigitValue(l[1])
    ELSE 10 * LineValue(SubSeq(l, 1, Len(l) - 1)) + DigitValue(l[Len(l)])

RECURSIVE Repeat(_, _)
Repeat(s, n) == IF n = 0 THEN <<>> ELSE s \o Repeat(s, n - 1)

\* The ten lines "1" to "10", character by character.
TenLines ==
    << "1", "\n", "2", "\n", "3", "\n", "4", "\n", "5", "\n",
       "6", "\n", "7", "\n", "8", "\n", "9", "\n", "1", "0", "\n" >>

\* The decimal string forms of 1..10.
DecimalForm ==
    << <<"1">>, <<"2">>, <<"3">>, <<"4">>, <<"5">>,
       <<"6">>, <<"7">>, <<"8">>, <<"9">>, <<"1", "0">> >>

\* Iterations of the current call's loop whose print has run.
IterationsCompleted ==
    IF it = <<>> THEN 0
    ELSE IF pc = "L9" THEN it[1].index - 1
    ELSE it[1].index

\* ------------------------------------------------------------------------
\* Properties

\* C1: when a single invocation has finished (the script has exited, or the
\* first call has returned), standard output is exactly the ten lines 1..10
\* in ascending order, with nothing before, between or after them.
ExactOutput ==
    /\ (pc = "exit" => stdout = TenLines)
    /\ (calls = 1 /\ caller = "none" => stdout = TenLines)

ExactOutputReached == pc = "exit" /\ calls = 1 /\ Len(stdout) > 0

\* C2: every invocation terminates: a call that has been entered returns, and
\* it returns after exactly 10 iterations, each of which printed.
Terminates ==
    /\ (caller # "none") ~> (caller = "none")
    /\ [](pc = "ret" => it # <<>> /\ it[1].index = 10 /\ IterationsCompleted = 10)
    /\ [](name = MainName => <>(pc = "exit"))

TerminatesReached == pc = "ret" /\ it # <<>> /\ it[1].index = 10

\* C3: repeated invocations write the same output each time: after n calls
\* standard output is n copies of what the first call wrote, each of the
\* length of the ten lines, whatever ran before.
SameOutputEachTime ==
    (caller = "none" /\ calls >= 1) =>
        /\ Len(stdout) = calls * Len(TenLines)
        /\ stdout = Repeat(SubSeq(stdout, 1, Len(stdout) \div calls), calls)

SecondCallReturned == caller = "none" /\ calls >= 2 /\ pc = "loaded"

\* C4: no failure outcome: no state carries an exit code other than 0, and a
\* script that has ended has exit code 0.
NoFailure ==
    /\ exitcode \in {<<>>, <<0>>}
    /\ (pc = "exit" => exitcode = <<0>>)
    /\ (exitcode # <<>> => pc = "exit")

ExitedNormally == pc = "exit" /\ exitcode = <<0>> /\ name = MainName

\* C5: every line written is the decimal string form of its integer, one digit
\* for 1..9 and two for 10, ended by exactly one newline, and standard output
\* holds no other character: no whitespace, padding or separator.
LineFormat ==
    /\ Unterminated(stdout) = <<>>
    /\ \A k \in 1..Len(stdout) : IsDigit(stdout[k]) \/ stdout[k] = NL
    /\ \A k \in 1..Len(Lines(stdout)) :
          LET l == Lines(stdout)[k]
              n == ((k - 1) % 10) + 1
          IN /\ l = DecimalForm[n]
             /\ Len(l) = (IF n = 10 THEN 2 ELSE 1)
             /\ l[1] # "0"

TwoDigitLineWritten ==
    /\ Len(Lines(stdout)) >= 10
    /\ Lines(stdout)[10] = <<"1", "0">>

\* C6: whenever a print is about to execute, the loop variable is bound and
\* 1 <= i <= 10; it is 1 in the first iteration; 11 is never printed.
CounterInRange ==
    pc = "L9" =>
        /\ i # <<>>
        /\ 1 <= i[1] /\ i[1] <= 10
        /\ (it[1].index = 1 => i[1] = 1)

LastIterationReached == pc = "L9" /\ i = <<10>>

OutputIsPrefix ==
    LET l == Lines(stdout)
        done == IF caller = "none" THEN 0 ELSE IterationsCompleted
    IN /\ Unterminated(stdout) = <<>>
       /\ Len(l) = 10 * calls + done
       /\ done <= 10
       /\ \A k \in 1..Len(l) : LineValue(l[k]) = ((k - 1) % 10) + 1
       /\ \A k \in 2..Len(l) :
             (k - 1) % 10 # 0 => LineValue(l[k]) = LineValue(l[k - 1]) + 1
       /\ (calls = 0 => IsPrefix(stdout, TenLines))

MidRun == pc = "L8" /\ calls = 0 /\ Len(Lines(stdout)) = 5

\* C9: the function is called by the file itself only when the file runs as
\* the main program, and then exactly once; loading it as an import binds the
\* function's name and writes nothing.
CalledOnlyAsMain ==
    /\ (caller = "module" => name = MainName)
    /\ (name # MainName /\ calls = 0 /\ caller = "none" =>
           stdout = <<>>)
    /\ (name # MainName /\ pc = "loaded" => FunctionName \in globals)
    /\ (name = MainName => calls <= 1 /\ Len(stdout) <= Len(TenLines))
    /\ (pc = "exit" => calls = 1)

ImportedSilently ==
    name # MainName /\ pc = "loaded" /\ calls = 0 /\ stdout = <<>>

====
